---- MODULE Spec2Model ----
(***************************************************************************)
(* Model of the token-accounting and scheduling core of Prompt-Automata:   *)
(*   - GlobalTokenCounter   (src/app/services/global_token_counter.py)     *)
(*   - BackgroundProcessor  (src/app/services/background_processor.py)     *)
(*   - RefreshService       (src/app/services/refresh_service.py)          *)
(* Every `await` on a coroutine that can suspend is a separate step, so    *)
(* the coroutines of different callers interleave at those points.         *)
(***************************************************************************)
EXTENDS Integers, Sequences, FiniteSets, TLC

(* ------------------------------ bounds -------------------------------- *)
\* number of distinct block ids used against the aggregator
NumBlocks == 2
\* number of notifications sent to the error notification service
MaxNotified == 103
\* longest file path, in components, given to the file reference validation
MaxDepth == 3
\* number of allowed directories configured
MaxDirs == 2
\* number of callers of the aggregator where the use of its lock is observed
NumLockers == 2
NumListed == 2
\* number of concurrent callers of the aggregator
NumCallers == 1
\* number of parallel callers updating pairwise disjoint block ids
NumParallel == 4
\* largest token count passed to the aggregator
MaxCount == 2

\* number of tasks submitted to the background processor
MaxTasks == 3
\* number of tasks submitted when only the queue order is observed
MaxQueued == 7
\* max_workers of the background processor
NumWorkers == 1
\* max_workers when only the queue order is observed
QueueWorkers == 1

BlockIds == 1..NumBlocks
Callers == 1..NumCallers
ParallelCallers == 1..NumParallel
\* token counts offered to the operations: -1 is the invalid (negative) input
Counts == -1..MaxCount
\* marks a block id that is not a key of _blocks
Absent == -2
\* marks a block id that is not a key of the updates of a batch
NotInBatch == -3
\* lock value when nobody holds the asyncio.Lock
NoHolder == 0
\* arguments of a caller that has no call in flight
NoCall == [op |-> "none", id |-> 0, count |-> 0]

VARIABLES
  \* GlobalTokenCounter
  blocks,          \* _blocks: block id -> token_count, Absent when not a key
  total_tokens,    \* _total_tokens
  lock,            \* holder of _lock, NoHolder when free
  pc,              \* per caller: where its coroutine is suspended
  arg,             \* per caller: arguments of its call in flight
  last_op,         \* the operation that last wrote _blocks or _total_tokens
  applied,         \* per parallel caller: the count its last update_block wrote
  call,            \* the sequential caller's last call: arguments, state before, outcome
  \* BackgroundProcessor
  tasks,           \* self.tasks: task id -> Task record (status "none": no such task)
  queue,           \* the heap list of self.queue, holding task ids
  unfinished,      \* self.queue._unfinished_tasks
  running,         \* self._running
  wpc,             \* per worker: where its coroutine is suspended
  wtask,           \* per worker: the task it dequeued (0: none)
  stop_pc,         \* where stop() is suspended
  stop_seen,       \* number of tasks submitted when stop() was called
  \* RefreshService
  contents,        \* refresh_all's contents: block id -> what the block holds
  listed,          \* refresh_all's blocks: position in the list -> block id
  refresh_tasks,   \* per block: the refresh_block coroutine gathered by refresh_all
  refresh,         \* the refresh_all call: its position and its outcome
  \* ErrorNotificationService
  recent,          \* _recent_notifications, each notification as its arrival number
  notified,        \* number of notify() calls so far
  \* ReferenceManager
  handlers,        \* _handlers: the reference types that have a handler
  rr,              \* the resolve_reference call: its position and its outcome
  \* FileReferenceHandler
  fv               \* a file reference, the allowed directories and what validation said

counterVars == <<blocks, total_tokens, lock, pc, arg, last_op>>

schedVars == <<tasks, queue, unfinished, running, wpc, wtask, stop_pc, stop_seen>>

refreshVars == <<contents, listed, refresh_tasks, refresh>>

hubVars == <<recent, notified>>

managerVars == <<handlers, rr>>

\* everything the aggregator's own operations leave alone
notCounter == <<applied, call, schedVars, refreshVars, hubVars, managerVars, fv>>

\* everything the background processor leaves alone
notSched == <<counterVars, applied, call, refreshVars, hubVars, managerVars, fv>>

vars == <<counterVars, applied, call, schedVars, refreshVars, hubVars, managerVars, fv>>

(* ------------------------ GlobalTokenCounter -------------------------- *)

RECURSIVE SumOver(_, _)
SumOver(b, ids) ==
  IF ids = {} THEN 0
  ELSE LET i == CHOOSE x \in ids : TRUE
       IN (IF b[i] = Absent THEN 0 ELSE b[i]) + SumOver(b, ids \ {i})

\* sum(block.token_count for block in self._blocks.values())
SumBlocks(b) == SumOver(b, DOMAIN b)

\* get_block_count: the count of a present block, 0 for an absent one
get_block_count(b, id) == IF b[id] = Absent THEN 0 ELSE b[id]

UB_NewBlocks_Keep(b, id, c) == [b EXCEPT ![id] = c]

\* update_block's write to _blocks: count 0 deletes the key, otherwise upsert
UB_NewBlocks(b, id, c) ==
  IF c = 0 THEN [b EXCEPT ![id] = Absent] ELSE [b EXCEPT ![id] = c]

UB_NewTotal_Incr(b, id, c, old_total) == old_total + c

UB_NewTotal_Last(b, id, c, old_total) == c

\* update_block's write to _total_tokens: recomputed as the full sum
UB_NewTotal(b, id, c, old_total) == SumBlocks(UB_NewBlocks(b, id, c))

RM_NewTotal_Sum(b, id, old_total) == SumBlocks([b EXCEPT ![id] = Absent])

\* remove_block's write to _total_tokens: decrement by the removed count
RM_NewTotal(b, id, old_total) == old_total - b[id]

\* update_blocks_batch's write to _blocks; u[id] = NotInBatch: id not in updates
BT_NewBlocks(b, u) == [id \in DOMAIN b |-> IF u[id] = NotInBatch THEN b[id] ELSE u[id]]

RS_NewBlocks_Stale(b) == b

\* reset's self._blocks.clear()
RS_NewBlocks(b) == [id \in DOMAIN b |-> Absent]

ST_Valid_Loose(t) == t >= -1

\* set_total_tokens' validation of total_tokens (line 231)
ST_Valid(t) == t >= 0

\* the sequential caller has made no call yet; blocks and total are the state
\* before the call, heard the totals the registered listener was called with
NoHistory ==
  [op |-> "none", id |-> 0, count |-> 0, updates |-> <<>>, error |-> "none",
   blocks |-> <<>>, total |-> 0, heard |-> <<>>, reported |-> "none"]

\* the background processor before start()
SchedIdle(n, k) ==
  /\ tasks = [t \in 1..n |->
               [priority |-> 0, func |-> "none", status |-> "none", retries |-> 0,
                error |-> 0, result |-> 0, put_ok |-> FALSE]]
  /\ queue = <<>>
  /\ unfinished = 0
  /\ running = FALSE
  /\ wpc = [w \in 1..k |-> "none"]
  /\ wtask = [w \in 1..k |-> 0]
  /\ stop_pc = "idle"
  /\ stop_seen = 0

\* a block without content and without references
NoContent == [text |-> 0, refs |-> "none", ref_tokens |-> 0]

\* a refresh_block coroutine that was not created
NoRefreshTask == [pc |-> "none", token_count |-> 0, content |-> NoContent, error |-> "none"]

\* the error notification service after construction (lines 61-66)
HubIdle ==
  /\ recent = <<>>
  /\ notified = 0

\* no resolve_reference call
NoResolve ==
  [pc |-> "idle", type |-> "none", validate |-> "none", resolve_called |-> FALSE,
   resolve |-> "none", success |-> FALSE, error |-> "none", raised |-> "none"]

\* the reference manager after construction: empty handler registry
ManagerIdle ==
  /\ handlers = {}
  /\ rr = NoResolve

\* no file reference to validate
NoFile ==
  [path |-> <<>>, exists |-> FALSE, is_file |-> FALSE, type_allowed |-> FALSE,
   crowded |-> FALSE, dirs |-> {}, validated |-> FALSE, is_valid |-> FALSE,
   error |-> "none", checked |-> FALSE, is_allowed |-> FALSE]

\* the refresh service with no refresh_all in flight
RefreshIdle ==
  /\ contents = [id \in BlockIds |-> NoContent]
  /\ listed = [id \in BlockIds |-> id]
  /\ refresh_tasks = [id \in BlockIds |-> NoRefreshTask]
  /\ refresh = [pc |-> "idle", total_tokens |-> 0, block_tokens |-> <<>>,
                error |-> "none", cause |-> "none"]

InitCounter ==
  /\ blocks = [id \in BlockIds |-> Absent]
  /\ total_tokens = 0
  /\ lock = NoHolder
  /\ pc = [p \in Callers |-> "idle"]
  /\ arg = [p \in Callers |-> NoCall]
  /\ last_op = "init"
  /\ applied = [p \in ParallelCallers |-> 0]
  /\ HubIdle
  /\ ManagerIdle
  /\ fv = NoFile
  /\ call = NoHistory
  /\ SchedIdle(MaxTasks, NumWorkers)
  /\ RefreshIdle

UB_Valid_Loose(c) == c >= -1

\* update_block's validation of token_count (line 100; TokenBlock.__post_init__)
UB_Valid(c) == c >= 0

\* update_block with a negative count: InvalidTokenCountError is raised before
\* the lock is touched; the handler awaits the error hub (pc "ub_err")
UB_Invalid(p, id, c) ==
  /\ pc[p] = "idle"
  /\ ~UB_Valid(c)
  /\ pc' = [pc EXCEPT ![p] = "ub_err"]
  /\ arg' = [arg EXCEPT ![p] = [op |-> "update_block", id |-> id, count |-> c]]
  /\ UNCHANGED <<blocks, total_tokens, lock, last_op>>
  /\ UNCHANGED notCounter

\* ... and re-raises InvalidTokenCountError to the caller
UB_Raise(p) ==
  /\ pc[p] = "ub_err"
  /\ pc' = [pc EXCEPT ![p] = "idle"]
  /\ arg' = [arg EXCEPT ![p] = NoCall]
  /\ UNCHANGED <<blocks, total_tokens, lock, last_op>>
  /\ UNCHANGED notCounter

\* update_block, lines 103-123: once the lock is free, take it, write the
\* block, recompute the total and call the listeners; the coroutine may then
\* suspend in _notify_listeners with the lock held.  A caller that finds the
\* lock taken waits at `async with self._lock`, which is this action disabled.
UB_Apply(p, id, c) ==
  /\ pc[p] = "idle"
  /\ UB_Valid(c)
  /\ lock = NoHolder
  /\ lock' = p
  /\ blocks' = UB_NewBlocks(blocks, id, c)
  /\ total_tokens' = UB_NewTotal(blocks, id, c, total_tokens)
  /\ last_op' = "update_block"
  /\ pc' = [pc EXCEPT ![p] = "ub_notify"]
  /\ arg' = [arg EXCEPT ![p] = [op |-> "update_block", id |-> id, count |-> c]]
  /\ UNCHANGED notCounter

\* leaving `async with self._lock` releases the lock; update_block returns
UB_Return(p) ==
  /\ pc[p] = "ub_notify"
  /\ lock' = NoHolder
  /\ pc' = [pc EXCEPT ![p] = "idle"]
  /\ arg' = [arg EXCEPT ![p] = NoCall]
  /\ UNCHANGED <<blocks, total_tokens, last_op>>
  /\ UNCHANGED notCounter

BT_InvalidEntries_First(u) == {id \in DOMAIN u : id = 1 /\ u[id] # NotInBatch /\ u[id] < 0}

\* the entries of a batch that fail validation (line 159)
BT_InvalidEntries(u) == {id \in DOMAIN u : u[id] # NotInBatch /\ u[id] < 0}

\* update_blocks_batch with an invalid entry: ValueError before any write
\* (an empty updates dict returns at once and is not modelled as a step)
BT_Invalid(p, u) ==
  /\ pc[p] = "idle"
  /\ BT_InvalidEntries(u) # {}
  /\ pc' = [pc EXCEPT ![p] = "bt_err"]
  /\ arg' = [arg EXCEPT ![p] = [op |-> "update_blocks_batch", id |-> 0, count |-> 0]]
  /\ UNCHANGED <<blocks, total_tokens, lock, last_op>>
  /\ UNCHANGED notCounter

BT_Raise(p) ==
  /\ pc[p] = "bt_err"
  /\ pc' = [pc EXCEPT ![p] = "idle"]
  /\ arg' = [arg EXCEPT ![p] = NoCall]
  /\ UNCHANGED <<blocks, total_tokens, lock, last_op>>
  /\ UNCHANGED notCounter

\* update_blocks_batch, lines 166-174: all entries written and the total
\* recomputed under one lock acquisition; nothing is awaited inside the lock
\* and the listeners are not called
BT_Apply(p, u) ==
  /\ pc[p] = "idle"
  /\ \E id \in DOMAIN u : u[id] # NotInBatch
  /\ BT_InvalidEntries(u) = {}
  /\ lock = NoHolder
  /\ blocks' = BT_NewBlocks(blocks, u)
  /\ total_tokens' = SumBlocks(blocks')
  /\ last_op' = "update_blocks_batch"
  /\ UNCHANGED <<lock, pc, arg>>
  /\ UNCHANGED notCounter

\* remove_block of an absent id: BlockNotFoundError raised inside the lock,
\* the lock is released on the way out, the handler awaits the error hub
RM_NotFound(p, id) ==
  /\ pc[p] = "idle"
  /\ lock = NoHolder
  /\ blocks[id] = Absent
  /\ pc' = [pc EXCEPT ![p] = "rm_err"]
  /\ arg' = [arg EXCEPT ![p] = [op |-> "remove_block", id |-> id, count |-> 0]]
  /\ UNCHANGED <<blocks, total_tokens, lock, last_op>>
  /\ UNCHANGED notCounter

RM_Raise(p) ==
  /\ pc[p] = "rm_err"
  /\ pc' = [pc EXCEPT ![p] = "idle"]
  /\ arg' = [arg EXCEPT ![p] = NoCall]
  /\ UNCHANGED <<blocks, total_tokens, lock, last_op>>
  /\ UNCHANGED notCounter

\* remove_block, lines 194-200: decrement the total, delete the key, notify
RM_Apply(p, id) ==
  /\ pc[p] = "idle"
  /\ lock = NoHolder
  /\ blocks[id] # Absent
  /\ lock' = p
  /\ total_tokens' = RM_NewTotal(blocks, id, total_tokens)
  /\ blocks' = [blocks EXCEPT ![id] = Absent]
  /\ last_op' = "remove_block"
  /\ pc' = [pc EXCEPT ![p] = "rm_notify"]
  /\ arg' = [arg EXCEPT ![p] = [op |-> "remove_block", id |-> id, count |-> 0]]
  /\ UNCHANGED notCounter

RM_Return(p) ==
  /\ pc[p] = "rm_notify"
  /\ lock' = NoHolder
  /\ pc' = [pc EXCEPT ![p] = "idle"]
  /\ arg' = [arg EXCEPT ![p] = NoCall]
  /\ UNCHANGED <<blocks, total_tokens, last_op>>
  /\ UNCHANGED notCounter

\* set_total_tokens with a negative total: raised before the lock, the
\* generic handler awaits the error hub and re-raises the same exception
ST_Invalid(p, t) ==
  /\ pc[p] = "idle"
  /\ ~ST_Valid(t)
  /\ pc' = [pc EXCEPT ![p] = "st_err"]
  /\ arg' = [arg EXCEPT ![p] = [op |-> "set_total_tokens", id |-> 0, count |-> t]]
  /\ UNCHANGED <<blocks, total_tokens, lock, last_op>>
  /\ UNCHANGED notCounter

ST_Raise(p) ==
  /\ pc[p] = "st_err"
  /\ pc' = [pc EXCEPT ![p] = "idle"]
  /\ arg' = [arg EXCEPT ![p] = NoCall]
  /\ UNCHANGED <<blocks, total_tokens, lock, last_op>>
  /\ UNCHANGED notCounter

\* set_total_tokens, lines 234-250: overwrite the total under the lock and
\* call the listeners; _blocks is not touched
ST_Apply(p, t) ==
  /\ pc[p] = "idle"
  /\ ST_Valid(t)
  /\ lock = NoHolder
  /\ lock' = p
  /\ total_tokens' = t
  /\ last_op' = "set_total_tokens"
  /\ pc' = [pc EXCEPT ![p] = "st_notify"]
  /\ arg' = [arg EXCEPT ![p] = [op |-> "set_total_tokens", id |-> 0, count |-> t]]
  /\ UNCHANGED blocks
  /\ UNCHANGED notCounter

ST_Return(p) ==
  /\ pc[p] = "st_notify"
  /\ lock' = NoHolder
  /\ pc' = [pc EXCEPT ![p] = "idle"]
  /\ arg' = [arg EXCEPT ![p] = NoCall]
  /\ UNCHANGED <<blocks, total_tokens, last_op>>
  /\ UNCHANGED notCounter

\* reset, lines 263-277: synchronous and without the lock
Reset(p) ==
  /\ pc[p] = "idle"
  /\ blocks' = RS_NewBlocks(blocks)
  /\ total_tokens' = 0
  /\ last_op' = "reset"
  /\ UNCHANGED <<lock, pc, arg>>
  /\ UNCHANGED notCounter

\* the updates dicts offered to update_blocks_batch
BatchUpdates == [BlockIds -> {NotInBatch} \cup Counts]

NextCounter ==
  \/ \E p \in Callers, id \in BlockIds, c \in Counts : UB_Invalid(p, id, c)
  \/ \E p \in Callers : UB_Raise(p)
  \/ \E p \in Callers, id \in BlockIds, c \in Counts : UB_Apply(p, id, c)
  \/ \E p \in Callers : UB_Return(p)
  \/ \E p \in Callers, u \in BatchUpdates : BT_Invalid(p, u)
  \/ \E p \in Callers : BT_Raise(p)
  \/ \E p \in Callers, u \in BatchUpdates : BT_Apply(p, u)
  \/ \E p \in Callers, id \in BlockIds : RM_NotFound(p, id)
  \/ \E p \in Callers : RM_Raise(p)
  \/ \E p \in Callers, id \in BlockIds : RM_Apply(p, id)
  \/ \E p \in Callers : RM_Return(p)
  \/ \E p \in Callers, t \in Counts : ST_Invalid(p, t)
  \/ \E p \in Callers : ST_Raise(p)
  \/ \E p \in Callers, t \in Counts : ST_Apply(p, t)
  \/ \E p \in Callers : ST_Return(p)
  \/ \E p \in Callers : Reset(p)

\* the aggregator under concurrent callers using every public operation
SpecCounter == InitCounter /\ [][NextCounter]_vars

LockCallers == 1..NumLockers

InitLock ==
  /\ blocks = [id \in BlockIds |-> Absent]
  /\ total_tokens = 0
  /\ lock = NoHolder
  /\ pc = [p \in LockCallers |-> "idle"]
  /\ arg = [p \in LockCallers |-> NoCall]
  /\ last_op = "init"
  /\ applied = [p \in ParallelCallers |-> 0]
  /\ HubIdle
  /\ ManagerIdle
  /\ fv = NoFile
  /\ call = NoHistory
  /\ SchedIdle(MaxTasks, NumWorkers)
  /\ RefreshIdle

NextLock ==
  \/ \E p \in LockCallers, id \in BlockIds, c \in Counts : UB_Invalid(p, id, c)
  \/ \E p \in LockCallers : UB_Raise(p)
  \/ \E p \in LockCallers, id \in BlockIds, c \in Counts : UB_Apply(p, id, c)
  \/ \E p \in LockCallers : UB_Return(p)
  \/ \E p \in LockCallers, u \in BatchUpdates : BT_Invalid(p, u)
  \/ \E p \in LockCallers : BT_Raise(p)
  \/ \E p \in LockCallers, u \in BatchUpdates : BT_Apply(p, u)
  \/ \E p \in LockCallers, id \in BlockIds : RM_NotFound(p, id)
  \/ \E p \in LockCallers : RM_Raise(p)
  \/ \E p \in LockCallers, id \in BlockIds : RM_Apply(p, id)
  \/ \E p \in LockCallers : RM_Return(p)
  \/ \E p \in LockCallers, t \in Counts : ST_Invalid(p, t)
  \/ \E p \in LockCallers : ST_Raise(p)
  \/ \E p \in LockCallers, t \in Counts : ST_Apply(p, t)
  \/ \E p \in LockCallers : ST_Return(p)
  \/ \E p \in LockCallers : Reset(p)

\* the aggregator under several callers, one of which can be inside the lock
\* while another makes its call
SpecLock == InitLock /\ [][NextLock]_vars

\* N parallel callers; caller p only ever updates block id p, with a
\* positive count
InitDisjoint ==
  /\ blocks = [id \in ParallelCallers |-> Absent]
  /\ total_tokens = 0
  /\ lock = NoHolder
  /\ pc = [p \in ParallelCallers |-> "idle"]
  /\ arg = [p \in ParallelCallers |-> NoCall]
  /\ last_op = "init"
  /\ applied = [p \in ParallelCallers |-> 0]
  /\ HubIdle
  /\ ManagerIdle
  /\ fv = NoFile
  /\ call = NoHistory
  /\ SchedIdle(MaxTasks, NumWorkers)
  /\ RefreshIdle

\* update_block(p, c) by parallel caller p, as UB_Apply, remembering c
P_Update(p, c) ==
  /\ pc[p] = "idle"
  /\ UB_Valid(c)
  /\ lock = NoHolder
  /\ lock' = p
  /\ blocks' = UB_NewBlocks(blocks, p, c)
  /\ total_tokens' = UB_NewTotal(blocks, p, c, total_tokens)
  /\ last_op' = "update_block"
  /\ pc' = [pc EXCEPT ![p] = "ub_notify"]
  /\ arg' = [arg EXCEPT ![p] = [op |-> "update_block", id |-> p, count |-> c]]
  /\ applied' = [applied EXCEPT ![p] = c]
  /\ UNCHANGED <<call, schedVars, refreshVars, hubVars, managerVars, fv>>

NextDisjoint ==
  \/ \E p \in ParallelCallers, c \in 1..MaxCount : P_Update(p, c)
  \/ \E p \in ParallelCallers : UB_Return(p)

SpecDisjoint == InitDisjoint /\ [][NextDisjoint]_vars

(* ------------- GlobalTokenCounter, one call after another -------------- *)

\* One caller with one registered listener makes the public calls one after
\* another; each action is a whole call, from entry to return or raise, and
\* leaves in `call` what was asked, the state before and the outcome (the
\* exception raised, what the listener heard, the error_code given to the
\* error notification service), until
\* the caller has taken the outcome and is ready for its next call.

InitCalls ==
  /\ blocks = [id \in BlockIds |-> Absent]
  /\ total_tokens = 0
  /\ lock = NoHolder
  /\ pc = [p \in Callers |-> "idle"]
  /\ arg = [p \in Callers |-> NoCall]
  /\ last_op = "init"
  /\ applied = [p \in ParallelCallers |-> 0]
  /\ HubIdle
  /\ ManagerIdle
  /\ fv = NoFile
  /\ call = NoHistory
  /\ SchedIdle(MaxTasks, NumWorkers)
  /\ RefreshIdle

\* the part of `call` every call fills in the same way
Asked(op, id, c, u) ==
  [op |-> op, id |-> id, count |-> c, updates |-> u, error |-> "none",
   blocks |-> blocks, total |-> total_tokens, heard |-> <<>>, reported |-> "none"]

\* update_block(id, c), lines 99-133
Do_update_block(id, c) ==
  /\ call = NoHistory
  /\ IF UB_Valid(c)
     THEN /\ blocks' = UB_NewBlocks(blocks, id, c)
          /\ total_tokens' = UB_NewTotal(blocks, id, c, total_tokens)
          /\ last_op' = "update_block"
          /\ call' = [Asked("update_block", id, c, <<>>) EXCEPT
                        !.heard = <<UB_NewTotal(blocks, id, c, total_tokens)>>]
     ELSE /\ call' = [Asked("update_block", id, c, <<>>) EXCEPT
                        !.error = "InvalidTokenCountError",
                        !.reported = "INVALID_TOKEN_COUNT"]
          /\ UNCHANGED <<blocks, total_tokens, last_op>>
  /\ UNCHANGED <<lock, pc, arg, applied, hubVars, managerVars, fv, schedVars, refreshVars>>

\* update_blocks_batch(u), lines 150-182: an empty dict returns at once, an
\* invalid entry raises ValueError before the lock, otherwise every entry is
\* written and the total recomputed; the listeners are not called
Do_update_blocks_batch(u) ==
  /\ call = NoHistory
  /\ IF \A id \in DOMAIN u : u[id] = NotInBatch
     THEN /\ call' = Asked("update_blocks_batch", 0, 0, u)
          /\ UNCHANGED <<blocks, total_tokens, last_op>>
     ELSE IF BT_InvalidEntries(u) # {}
     THEN /\ call' = [Asked("update_blocks_batch", 0, 0, u) EXCEPT !.error = "ValueError"]
          /\ UNCHANGED <<blocks, total_tokens, last_op>>
     ELSE /\ blocks' = BT_NewBlocks(blocks, u)
          /\ total_tokens' = SumBlocks(BT_NewBlocks(blocks, u))
          /\ last_op' = "update_blocks_batch"
          /\ call' = Asked("update_blocks_batch", 0, 0, u)
  /\ UNCHANGED <<lock, pc, arg, applied, hubVars, managerVars, fv, schedVars, refreshVars>>

\* remove_block(id), lines 193-210
Do_remove_block(id) ==
  /\ call = NoHistory
  /\ IF blocks[id] = Absent
     THEN /\ call' = [Asked("remove_block", id, 0, <<>>) EXCEPT
                        !.error = "BlockNotFoundError",
                        !.reported = "BLOCK_NOT_FOUND"]
          /\ UNCHANGED <<blocks, total_tokens, last_op>>
     ELSE /\ total_tokens' = RM_NewTotal(blocks, id, total_tokens)
          /\ blocks' = [blocks EXCEPT ![id] = Absent]
          /\ last_op' = "remove_block"
          /\ call' = [Asked("remove_block", id, 0, <<>>) EXCEPT
                        !.heard = <<RM_NewTotal(blocks, id, total_tokens)>>]
  /\ UNCHANGED <<lock, pc, arg, applied, hubVars, managerVars, fv, schedVars, refreshVars>>

\* set_total_tokens(t), lines 230-261
Do_set_total_tokens(t) ==
  /\ call = NoHistory
  /\ IF ST_Valid(t)
     THEN /\ total_tokens' = t
          /\ last_op' = "set_total_tokens"
          /\ call' = [Asked("set_total_tokens", 0, t, <<>>) EXCEPT !.heard = <<t>>]
          /\ UNCHANGED blocks
     ELSE /\ call' = [Asked("set_total_tokens", 0, t, <<>>) EXCEPT
                        !.error = "InvalidTokenCountError",
                        !.reported = "SET_TOTAL_ERROR"]
          /\ UNCHANGED <<blocks, total_tokens, last_op>>
  /\ UNCHANGED <<lock, pc, arg, applied, hubVars, managerVars, fv, schedVars, refreshVars>>

\* reset(), lines 265-277: clear, zero the total, call the listeners with 0
Do_reset ==
  /\ call = NoHistory
  /\ blocks' = RS_NewBlocks(blocks)
  /\ total_tokens' = 0
  /\ last_op' = "reset"
  /\ call' = [Asked("reset", 0, 0, <<>>) EXCEPT !.heard = <<0>>]
  /\ UNCHANGED <<lock, pc, arg, applied, hubVars, managerVars, fv, schedVars, refreshVars>>

\* the caller has the value or the exception of its call and goes on; the
\* aggregator is not touched
CallReturned ==
  /\ call # NoHistory
  /\ call' = NoHistory
  /\ UNCHANGED <<counterVars, applied, hubVars, managerVars, fv, schedVars, refreshVars>>

NextCalls ==
  \/ \E id \in BlockIds, c \in Counts : Do_update_block(id, c)
  \/ \E u \in BatchUpdates : Do_update_blocks_batch(u)
  \/ \E id \in BlockIds : Do_remove_block(id)
  \/ \E t \in Counts : Do_set_total_tokens(t)
  \/ Do_reset
  \/ CallReturned

\* the aggregator used by one caller, every call observed from outside
SpecCalls == InitCalls /\ [][NextCalls]_vars

(* ------------------------ BackgroundProcessor ------------------------- *)

\* TaskPriority values
HIGH == 0
MEDIUM == 1
LOW == 2
Priorities == {HIGH, MEDIUM, LOW}
\* priorities submitted where the life cycle of the processor is observed: an
\* equal and a different one
SchedPriorities == {HIGH, MEDIUM}

\* Task.max_retries
MaxRetries == 3

\* what the submitted work functions do when invoked
Funcs == {"works", "throws"}

\* number of tasks submitted so far; task ids are handed out in this order
NumSubmitted == Cardinality({t \in DOMAIN tasks : tasks[t].status # "none"})

\* priority.value of every task, the first component of the queued tuples
PrioOf(ts) == [t \in DOMAIN ts |-> ts[t].priority]

\* (priority.value, task) < (priority.value, task) when the priorities differ
PrioLess(a, b, pr) == pr[a] < pr[b]

\* comparing two queued tuples of equal priority falls through to comparing
\* the Task objects, which define no ordering: TypeError
CompareRaises(a, b, pr) == pr[a] = pr[b]

Swap(h, i, j) == [h EXCEPT ![i] = h[j], ![j] = h[i]]

\* heapq's _siftdown over 0-based positions; err: a comparison raised and the
\* list is left as it was at that moment
RECURSIVE SiftDown(_, _, _, _)
SiftDown(h, startpos, pos, pr) ==
  IF pos <= startpos THEN [heap |-> h, err |-> FALSE]
  ELSE LET parentpos == (pos - 1) \div 2
           newitem == h[pos + 1]
           parent == h[parentpos + 1]
       IN IF CompareRaises(newitem, parent, pr) THEN [heap |-> h, err |-> TRUE]
          ELSE IF PrioLess(newitem, parent, pr)
               THEN SiftDown(Swap(h, pos + 1, parentpos + 1), startpos, parentpos, pr)
               ELSE [heap |-> h, err |-> FALSE]

\* heapq's _siftup: bubble the smaller child up to a leaf, then _siftdown
RECURSIVE SiftUp(_, _, _, _)
SiftUp(h, startpos, pos, pr) ==
  LET endpos == Len(h)
      limit == endpos \div 2
      childpos == 2 * pos + 1
  IN IF pos >= limit THEN SiftDown(h, startpos, pos, pr)
     ELSE IF childpos + 1 < endpos
          THEN IF CompareRaises(h[childpos + 1], h[childpos + 2], pr)
               THEN [heap |-> h, err |-> TRUE]
               ELSE LET c == IF PrioLess(h[childpos + 1], h[childpos + 2], pr)
                             THEN childpos ELSE childpos + 1
                    IN SiftUp(Swap(h, c + 1, pos + 1), startpos, c, pr)
          ELSE SiftUp(Swap(h, childpos + 1, pos + 1), startpos, childpos, pr)

\* heapq.heappush: append, then sift the new item towards the root
HeapPush(h, item, pr) == SiftDown(Append(h, item), 0, Len(h), pr)

HeapPop_Keep(h, pr) == [item |-> h[1], heap |-> h, err |-> FALSE]

\* heapq.heappop: take the last item off, return the root and sift the last
\* item down from the root; when a comparison raises the root is dropped
HeapPop(h, pr) ==
  LET n == Len(h)
      last == h[n]
      rest == SubSeq(h, 1, n - 1)
  IN IF n = 1 THEN [item |-> last, heap |-> <<>>, err |-> FALSE]
     ELSE LET r == SiftUp([rest EXCEPT ![1] = last], 0, 0, pr)
          IN [item |-> rest[1], heap |-> r.heap, err |-> r.err]

\* Queue.task_done: ValueError (swallowed by the worker) instead of going below 0
TaskDone(n) == IF n <= 0 THEN n ELSE n - 1

\* `while self._running` at the head of the worker loop
LoopHead == IF running THEN "get" ELSE "exited"

\* stop() has called worker.cancel() on the workers
CancelRequested == stop_pc = "gather"

RetriesExhausted_Late(r) == r > MaxRetries

\* line 174: task.retries >= task.max_retries
RetriesExhausted(r) == r >= MaxRetries

\* one pass of the worker's retry loop (lines 164-188) over task record t:
\* the record afterwards and whether the worker goes on to sleep
ExecOutcome(t) ==
  IF ~(t.retries < MaxRetries)
  THEN [task |-> [t EXCEPT !.status = "FAILED", !.error = -1], sleep |-> FALSE]
  ELSE IF t.func = "works"
  THEN [task |-> [t EXCEPT !.status = "COMPLETED", !.result = 1], sleep |-> FALSE]
  ELSE LET r == t.retries + 1
       IN IF RetriesExhausted(r)
          THEN [task |-> [t EXCEPT !.retries = r, !.status = "FAILED", !.error = r],
                sleep |-> FALSE]
          ELSE [task |-> [t EXCEPT !.retries = r], sleep |-> TRUE]

InitSched ==
  /\ SchedIdle(MaxTasks, NumWorkers)
  /\ RefreshIdle
  /\ blocks = [id \in BlockIds |-> Absent]
  /\ total_tokens = 0
  /\ lock = NoHolder
  /\ pc = [p \in Callers |-> "idle"]
  /\ arg = [p \in Callers |-> NoCall]
  /\ last_op = "init"
  /\ applied = [p \in ParallelCallers |-> 0]
  /\ HubIdle
  /\ ManagerIdle
  /\ fv = NoFile
  /\ call = NoHistory

\* start(): set _running and create the worker tasks
Start ==
  /\ ~running
  /\ stop_pc = "idle"
  /\ \A w \in DOMAIN wpc : wpc[w] = "none"
  /\ running' = TRUE
  /\ wpc' = [w \in DOMAIN wpc |-> "new"]
  /\ UNCHANGED <<tasks, queue, unfinished, wtask, stop_pc, stop_seen>>
  /\ UNCHANGED notSched

\* submit(): record the task, then queue.put((priority.value, task)); when
\* the push raises, the item is already in the heap list and
\* _unfinished_tasks is not incremented
Submit(prio, f) ==
  /\ NumSubmitted < Cardinality(DOMAIN tasks)
  /\ LET id == NumSubmitted + 1
         pr == [PrioOf(tasks) EXCEPT ![id] = prio]
         r == HeapPush(queue, id, pr)
     IN /\ tasks' = [tasks EXCEPT ![id] =
                       [priority |-> prio, func |-> f, status |-> "PENDING",
                        retries |-> 0, error |-> 0, result |-> 0, put_ok |-> ~r.err]]
        /\ queue' = r.heap
        /\ unfinished' = IF r.err THEN unfinished ELSE unfinished + 1
  /\ UNCHANGED <<running, wpc, wtask, stop_pc, stop_seen>>
  /\ UNCHANGED notSched

\* a worker task runs for the first time
W_Begin(w) ==
  /\ wpc[w] = "new"
  /\ ~CancelRequested
  /\ wpc' = [wpc EXCEPT ![w] = LoopHead]
  /\ UNCHANGED <<tasks, queue, unfinished, running, wtask, stop_pc, stop_seen>>
  /\ UNCHANGED notSched

\* queue.get() returns a task: lines 159-161 (a worker waiting in get() goes
\* on as soon as the queue holds an item)
W_Get(w) ==
  /\ wpc[w] = "get"
  /\ ~CancelRequested
  /\ queue # <<>>
  /\ LET r == HeapPop(queue, PrioOf(tasks))
     IN /\ ~r.err
        /\ queue' = r.heap
        /\ tasks' = [tasks EXCEPT ![r.item].status = "RUNNING"]
        /\ wtask' = [wtask EXCEPT ![w] = r.item]
  /\ wpc' = [wpc EXCEPT ![w] = "run"]
  /\ UNCHANGED <<unfinished, running, stop_pc, stop_seen>>
  /\ UNCHANGED notSched

\* queue.get() raises TypeError out of heappop: logged as a worker error at
\* line 191, the loop goes round again
W_GetError(w) ==
  /\ wpc[w] = "get"
  /\ ~CancelRequested
  /\ queue # <<>>
  /\ LET r == HeapPop(queue, PrioOf(tasks))
     IN /\ r.err
        /\ queue' = r.heap
  /\ wpc' = [wpc EXCEPT ![w] = LoopHead]
  /\ UNCHANGED <<tasks, unfinished, running, wtask, stop_pc, stop_seen>>
  /\ UNCHANGED notSched

\* the worker invokes the work function once (lines 164-188)
W_Exec(w) ==
  /\ wpc[w] = "run"
  /\ LET o == ExecOutcome(tasks[wtask[w]])
     IN /\ tasks' = [tasks EXCEPT ![wtask[w]] = o.task]
        /\ IF o.sleep
           THEN /\ wpc' = [wpc EXCEPT ![w] = "sleep"]
                /\ UNCHANGED <<unfinished, wtask>>
           ELSE /\ wpc' = [wpc EXCEPT ![w] = LoopHead]
                /\ unfinished' = TaskDone(unfinished)
                /\ wtask' = [wtask EXCEPT ![w] = 0]
  /\ UNCHANGED <<queue, running, stop_pc, stop_seen>>
  /\ UNCHANGED notSched

\* the backoff sleep of line 179 is over
W_Wake(w) ==
  /\ wpc[w] = "sleep"
  /\ ~CancelRequested
  /\ wpc' = [wpc EXCEPT ![w] = "run"]
  /\ UNCHANGED <<tasks, queue, unfinished, running, wtask, stop_pc, stop_seen>>
  /\ UNCHANGED notSched

\* CancelledError reaches a worker at its await: it passes the `except
\* Exception` handlers, runs the finally block when a task is in hand, and
\* ends the worker
W_Cancelled(w) ==
  /\ CancelRequested
  /\ wpc[w] \in {"new", "get", "run", "sleep"}
  /\ wpc' = [wpc EXCEPT ![w] = "exited"]
  /\ unfinished' = IF wtask[w] # 0 THEN TaskDone(unfinished) ELSE unfinished
  /\ wtask' = [wtask EXCEPT ![w] = 0]
  /\ UNCHANGED <<tasks, queue, running, stop_pc, stop_seen>>
  /\ UNCHANGED notSched

\* stop(), lines 83-86: clear _running and wait in queue.join(); with nothing
\* unfinished join returns at once and the workers are cancelled
Stop_Call ==
  /\ stop_pc = "idle"
  /\ \A w \in DOMAIN wpc : wpc[w] # "none"
  /\ running' = FALSE
  /\ stop_seen' = NumSubmitted
  /\ stop_pc' = IF unfinished = 0 THEN "gather" ELSE "join"
  /\ UNCHANGED <<tasks, queue, unfinished, wpc, wtask>>
  /\ UNCHANGED notSched

\* queue.join() returns once _unfinished_tasks is 0; stop() cancels the workers
Stop_Join ==
  /\ stop_pc = "join"
  /\ unfinished = 0
  /\ stop_pc' = "gather"
  /\ UNCHANGED <<tasks, queue, unfinished, running, wpc, wtask, stop_seen>>
  /\ UNCHANGED notSched

\* asyncio.gather over the workers is done: stop() returns
Stop_Return ==
  /\ stop_pc = "gather"
  /\ \A w \in DOMAIN wpc : wpc[w] = "exited"
  /\ stop_pc' = "returned"
  /\ UNCHANGED <<tasks, queue, unfinished, running, wpc, wtask, stop_seen>>
  /\ UNCHANGED notSched

NextSched ==
  \/ Start
  \/ \E prio \in SchedPriorities, f \in Funcs : Submit(prio, f)
  \/ \E w \in DOMAIN wpc : W_Begin(w)
  \/ \E w \in DOMAIN wpc : W_Get(w)
  \/ \E w \in DOMAIN wpc : W_GetError(w)
  \/ \E w \in DOMAIN wpc : W_Exec(w)
  \/ \E w \in DOMAIN wpc : W_Wake(w)
  \/ \E w \in DOMAIN wpc : W_Cancelled(w)
  \/ Stop_Call
  \/ Stop_Join
  \/ Stop_Return

\* the background processor through one start() ... stop() life
SpecSched == InitSched /\ [][NextSched]_vars

\* one pass of worker w through its loop (lines 157-192)
WorkerStep(w) ==
  \/ W_Begin(w)
  \/ W_Get(w)
  \/ W_GetError(w)
  \/ W_Exec(w)
  \/ W_Wake(w)

\* the processor while stop() is not called
NextSchedLive ==
  \/ Start
  \/ \E prio \in SchedPriorities, f \in Funcs : Submit(prio, f)
  \/ \E w \in DOMAIN wpc : W_Begin(w)
  \/ \E w \in DOMAIN wpc : W_Get(w)
  \/ \E w \in DOMAIN wpc : W_GetError(w)
  \/ \E w \in DOMAIN wpc : W_Exec(w)
  \/ \E w \in DOMAIN wpc : W_Wake(w)

\* a processor that is never stopped: the event loop runs every worker that
\* can go on, work functions return or raise, and the backoff sleep ends;
\* start() and submit() are the client's and happen or not
SpecSchedLive ==
  InitSched /\ [][NextSchedLive]_vars /\ \A w \in 1..NumWorkers : WF_vars(WorkerStep(w))

InitQueue ==
  /\ SchedIdle(MaxQueued, QueueWorkers)
  /\ RefreshIdle
  /\ blocks = [id \in BlockIds |-> Absent]
  /\ total_tokens = 0
  /\ lock = NoHolder
  /\ pc = [p \in Callers |-> "idle"]
  /\ arg = [p \in Callers |-> NoCall]
  /\ last_op = "init"
  /\ applied = [p \in ParallelCallers |-> 0]
  /\ HubIdle
  /\ ManagerIdle
  /\ fv = NoFile
  /\ call = NoHistory

NextQueue ==
  \/ Start
  \/ \E prio \in Priorities : Submit(prio, "works")
  \/ \E w \in DOMAIN wpc : W_Begin(w)
  \/ \E w \in DOMAIN wpc : W_Get(w)
  \/ \E w \in DOMAIN wpc : W_GetError(w)
  \/ \E w \in DOMAIN wpc : W_Exec(w)

\* a started processor whose tasks all succeed: the order of the queue
SpecQueue == InitQueue /\ [][NextQueue]_vars

(* ---------------------- ErrorNotificationService ---------------------- *)

\* self._max_recent
MaxRecent == 100

HubAppend_DropNewest(buf, n) ==
  IF Len(buf) + 1 > MaxRecent THEN buf ELSE Append(buf, n)

\* lines 109-111 of notify: append, and pop(0) when the list got longer than
\* _max_recent
HubAppend(buf, n) ==
  LET longer == Append(buf, n)
  IN IF Len(longer) > MaxRecent THEN Tail(longer) ELSE longer

InitHub ==
  /\ HubIdle
  /\ ManagerIdle
  /\ fv = NoFile
  /\ SchedIdle(MaxTasks, NumWorkers)
  /\ RefreshIdle
  /\ blocks = [id \in BlockIds |-> Absent]
  /\ total_tokens = 0
  /\ lock = NoHolder
  /\ pc = [p \in Callers |-> "idle"]
  /\ arg = [p \in Callers |-> NoCall]
  /\ last_op = "init"
  /\ applied = [p \in ParallelCallers |-> 0]
  /\ call = NoHistory

\* notify(): the body under the service's lock has no await, so the append
\* and the eviction are one step; the listeners it then calls have no access
\* to the list
Hub_Notify ==
  /\ notified < MaxNotified
  /\ notified' = notified + 1
  /\ recent' = HubAppend(recent, notified + 1)
  /\ UNCHANGED <<counterVars, applied, call, schedVars, refreshVars, managerVars, fv>>

NextHub == Hub_Notify

\* the error notification service receiving one notification after another
SpecHub == InitHub /\ [][NextHub]_vars

(* -------------------------- ReferenceManager -------------------------- *)

\* ReferenceType
ReferenceTypes == {"file", "variable", "api"}

\* the exception classes derived from ReferenceError (lines 23-40)
ReferenceErrors ==
  {"ReferenceError", "ValidationError", "ResolutionError", "AuthenticationError",
   "RateLimitError"}

\* what a handler's validate can do: return (is_valid, error) with or
\* without a message, or raise
ValidateOutcomes ==
  {[raises |-> "none", is_valid |-> TRUE, error |-> "none"],
   [raises |-> "none", is_valid |-> FALSE, error |-> "none"],
   [raises |-> "none", is_valid |-> FALSE, error |-> ""],
   [raises |-> "none", is_valid |-> FALSE, error |-> "handler message"],
   [raises |-> "ValidationError", is_valid |-> FALSE, error |-> "none"],
   [raises |-> "ValueError", is_valid |-> FALSE, error |-> "none"]}

\* what a handler's resolve can do: return a result or raise
ResolveOutcomes ==
  {[raises |-> "none", success |-> TRUE, error |-> "none"],
   [raises |-> "none", success |-> FALSE, error |-> "handler message"],
   [raises |-> "ResolutionError", success |-> FALSE, error |-> "none"],
   [raises |-> "RuntimeError", success |-> FALSE, error |-> "none"]}

\* line 309: error or "Invalid reference value"
InvalidMessage(error) ==
  IF error \in {"none", ""} THEN "Invalid reference value" ELSE error

RR_Caught_OnlyReference(e) ==
  IF e \in ReferenceErrors
  THEN [success |-> FALSE, error |-> "Reference error: ...", raised |-> "none"]
  ELSE [success |-> FALSE, error |-> "none", raised |-> e]

\* lines 317-325: both handlers return a failed result carrying the message
RR_Caught(e) ==
  IF e \in ReferenceErrors
  THEN [success |-> FALSE, error |-> "Reference error: ...", raised |-> "none"]
  ELSE [success |-> FALSE, error |-> "Unexpected error resolving reference: ...",
        raised |-> "none"]

\* resolve_reference is over with outcome o
RR_Ends(o) ==
  [rr EXCEPT !.pc = IF o.raised = "none" THEN "returned" ELSE "raised",
             !.success = o.success, !.error = o.error, !.raised = o.raised]

InitManager ==
  /\ ManagerIdle
  /\ fv = NoFile
  /\ HubIdle
  /\ SchedIdle(MaxTasks, NumWorkers)
  /\ RefreshIdle
  /\ blocks = [id \in BlockIds |-> Absent]
  /\ total_tokens = 0
  /\ lock = NoHolder
  /\ pc = [p \in Callers |-> "idle"]
  /\ arg = [p \in Callers |-> NoCall]
  /\ last_op = "init"
  /\ applied = [p \in ParallelCallers |-> 0]
  /\ call = NoHistory

\* register_handler
RegisterHandler(type) ==
  /\ rr.pc \in {"idle", "returned", "raised"}
  /\ handlers' = handlers \cup {type}
  /\ UNCHANGED <<rr, counterVars, applied, call, schedVars, refreshVars, hubVars, fv>>

\* resolve_reference up to its first await: without a handler it returns a
\* failed result (lines 298-304), otherwise it awaits handler.validate
RR_Call(type) ==
  /\ rr.pc \in {"idle", "returned", "raised"}
  /\ rr' = IF type \in handlers
           THEN [NoResolve EXCEPT !.pc = "validate", !.type = type]
           ELSE [NoResolve EXCEPT !.pc = "returned", !.type = type,
                                  !.error = "No handler registered for reference type: ..."]
  /\ UNCHANGED <<handlers, counterVars, applied, call, schedVars, refreshVars, hubVars, fv>>

\* handler.validate is over (lines 307-311)
RR_Validate(v) ==
  /\ rr.pc = "validate"
  /\ rr' = IF v.raises # "none"
           THEN [RR_Ends(RR_Caught(v.raises)) EXCEPT !.validate = "raised"]
           ELSE IF ~v.is_valid
           THEN [rr EXCEPT !.pc = "returned", !.validate = "invalid",
                           !.error = InvalidMessage(v.error)]
           ELSE [rr EXCEPT !.pc = "resolve", !.validate = "valid",
                           !.resolve_called = TRUE]
  /\ UNCHANGED <<handlers, counterVars, applied, call, schedVars, refreshVars, hubVars, fv>>

\* handler.resolve is over (line 315): its result is returned as it is
RR_Resolve(r) ==
  /\ rr.pc = "resolve"
  /\ rr' = IF r.raises # "none"
           THEN [RR_Ends(RR_Caught(r.raises)) EXCEPT !.resolve = "raised"]
           ELSE [RR_Ends([success |-> r.success, error |-> r.error, raised |-> "none"])
                   EXCEPT !.resolve = "returned"]
  /\ UNCHANGED <<handlers, counterVars, applied, call, schedVars, refreshVars, hubVars, fv>>

NextManager ==
  \/ \E type \in ReferenceTypes : RegisterHandler(type)
  \/ \E type \in ReferenceTypes : RR_Call(type)
  \/ \E v \in ValidateOutcomes : RR_Validate(v)
  \/ \E r \in ResolveOutcomes : RR_Resolve(r)

\* the reference manager: handlers are registered and references resolved
SpecManager == InitManager /\ [][NextManager]_vars

(* ------------------------ FileReferenceHandler ------------------------ *)

\* names of directories and files; a resolved path is the sequence of its
\* components below the root
Names == {"src", ".git"}

\* EXCLUDED_DIRS
ExcludedDirs == {".venv", ".env", "node_modules", "__pycache__", ".git"}

Paths(n) == UNION {[1..k -> Names] : k \in 0..n}

\* the rows of allowed_directory: a base path and whether it is recursive
AllowedDirs == [path : Paths(MaxDepth - 1), is_recursive : BOOLEAN]

\* Path.relative_to(base) succeeds: base is the path or one of its ancestors
is_subpath(path, base) ==
  /\ Len(base) <= Len(path)
  /\ SubSeq(path, 1, Len(base)) = base

\* is_excluded_dir: any component of the path is an excluded name
is_excluded_dir(path) == \E i \in 1..Len(path) : path[i] \in ExcludedDirs

\* FilePathValidator.validate_path: the checks in the order of the code; the
\* first allowed directory that is the path or an ancestor of it makes the
\* path valid, for a directory that is not recursive too (then only the
\* third element of the result differs)
validate_path(f) ==
  IF ~f.exists THEN [is_valid |-> FALSE, error |-> "File not found"]
  ELSE IF ~f.is_file THEN [is_valid |-> FALSE, error |-> "Not a file"]
  ELSE IF ~f.type_allowed THEN [is_valid |-> FALSE, error |-> "File type not allowed"]
  ELSE IF is_excluded_dir(f.path)
  THEN [is_valid |-> FALSE, error |-> "Path contains excluded directory"]
  ELSE IF f.crowded THEN [is_valid |-> FALSE, error |-> "Directory has too many files"]
  ELSE IF f.dirs = {} THEN [is_valid |-> FALSE, error |-> "No allowed directories configured"]
  ELSE IF \E d \in f.dirs : is_subpath(f.path, d.path)
  THEN [is_valid |-> TRUE, error |-> "none"]
  ELSE [is_valid |-> FALSE, error |-> "Path is not within any allowed directory"]

\* FileReferenceHandler.validate: an empty value and a missing file are
\* refused, otherwise validate_path decides
FH_validate(f) ==
  IF f.path = <<>> THEN [is_valid |-> FALSE, error |-> "Empty file path"]
  ELSE IF ~f.exists THEN [is_valid |-> FALSE, error |-> "File not found"]
  ELSE validate_path(f)

\* AllowedDirectory.is_path_allowed: the target must exist and, for some
\* allowed directory, lie in it directly or, when it is recursive, anywhere
\* below it (f.dirs is the table as ensure_default_directory leaves it)
is_path_allowed(f) ==
  /\ f.exists
  /\ \E d \in f.dirs :
       /\ is_subpath(f.path, d.path)
       /\ d.is_recursive \/ Len(f.path) - Len(d.path) <= 1

\* the file references and configurations validated; the path without
\* components stands for the empty reference value, which names no file
FileInputs ==
  {f \in [path : Paths(MaxDepth), exists : BOOLEAN, is_file : BOOLEAN,
          type_allowed : BOOLEAN, crowded : BOOLEAN,
          dirs : {ds \in SUBSET AllowedDirs : Cardinality(ds) <= MaxDirs},
          validated : {FALSE}, is_valid : {FALSE}, error : {"none"},
          checked : {FALSE}, is_allowed : {FALSE}] :
     /\ f.is_file => f.exists
     /\ f.path = <<>> => ~f.exists}

InitFiles ==
  /\ fv \in FileInputs
  /\ ManagerIdle
  /\ HubIdle
  /\ SchedIdle(MaxTasks, NumWorkers)
  /\ RefreshIdle
  /\ blocks = [id \in BlockIds |-> Absent]
  /\ total_tokens = 0
  /\ lock = NoHolder
  /\ pc = [p \in Callers |-> "idle"]
  /\ arg = [p \in Callers |-> NoCall]
  /\ last_op = "init"
  /\ applied = [p \in ParallelCallers |-> 0]
  /\ call = NoHistory

\* FileReferenceHandler.validate(reference_value)
FH_Validate ==
  /\ ~fv.validated
  /\ fv' = [fv EXCEPT !.validated = TRUE,
                      !.is_valid = FH_validate(fv).is_valid,
                      !.error = FH_validate(fv).error]
  /\ UNCHANGED <<counterVars, applied, call, schedVars, refreshVars, hubVars, managerVars>>

\* AllowedDirectory.is_path_allowed(target_path)
AD_IsPathAllowed ==
  /\ ~fv.checked
  /\ fv' = [fv EXCEPT !.checked = TRUE, !.is_allowed = is_path_allowed(fv)]
  /\ UNCHANGED <<counterVars, applied, call, schedVars, refreshVars, hubVars, managerVars>>

NextFiles ==
  \/ FH_Validate
  \/ AD_IsPathAllowed

\* file references validated against the allowed directories
SpecFiles == InitFiles /\ [][NextFiles]_vars

(* --------------------------- RefreshService --------------------------- *)

\* what a block can hold. text: token count of its raw content (0: no
\* content); refs: how the block's references resolve ("none": it has no
\* reference, "missing": get_reference_content returns an error, "found": it
\* returns content); ref_tokens: token count of the resolved content
Contents ==
  {c \in [text : 0..MaxCount, refs : {"none", "missing", "found"},
          ref_tokens : 0..MaxCount] : c.refs # "found" => c.ref_tokens = 0}

\* _process_references: the joined content of the references that resolved,
\* as its token count; a reference that fails is logged and adds nothing
ProcessReferences(c) == IF c.refs = "found" THEN c.ref_tokens ELSE 0

\* lines 66-76 of refresh_block: the resolved reference content is counted,
\* and when that is empty the raw content is counted instead
ContentForCounting(c) ==
  LET reference_content == IF c.refs = "none" THEN 0 ELSE ProcessReferences(c)
  IN IF reference_content # 0 THEN reference_content ELSE c.text

\* message of the RefreshError raised on asyncio.TimeoutError (lines 122-126)
TimeoutMessage == "Operation timed out. Please try refreshing blocks individually."

\* lines 149-151: every exception leaving the body of refresh_all, the
\* RefreshError of the timeout included, is replaced by a new RefreshError
OuterHandler(e) == [error |-> "Failed to refresh all blocks", cause |-> e]

\* value of the lock while block id's refresh_block holds it in update_block
RefreshHolder(id) == 0 - id

ReturnedContent_Resolved(c) ==
  IF c.refs = "found" THEN [text |-> c.ref_tokens, refs |-> "none", ref_tokens |-> 0]
  ELSE c

\* "content" of refresh_block's result (line 84): the content it was given,
\* with its reference patterns, not what the references resolved to
ReturnedContent(c) == c

\* lines 192-194: _process_references raises RefreshError for whatever it catches
PR_Handler(e) == "RefreshError"

RB_Handler_Passthrough(e) == e

\* lines 90-92: refresh_block raises RefreshError for whatever it catches
RB_Handler(e) == "RefreshError"

\* block_tokens of refresh_all's result: the counts of the results that are
\* not exceptions, keyed by block id (lines 132-138); when an id is listed
\* more than once the assignment of line 137 keeps its last result
BlockTokens(rt) ==
  LET ok == {i \in DOMAIN rt : rt[i].pc = "done"}
      last(b) == CHOOSE i \in ok : listed[i] = b /\ \A j \in ok : listed[j] = b => j <= i
  IN [b \in {listed[i] : i \in ok} |-> rt[last(b)].token_count]

ReturnedTotal_All(rt) ==
  SumOver([id \in DOMAIN rt |-> ContentForCounting(contents[listed[id]])], DOMAIN rt)

\* total_tokens summed over the gathered results that are not exceptions
\* (lines 130-139)
ReturnedTotal(rt) ==
  SumOver([id \in DOMAIN rt |-> IF rt[id].pc = "done" THEN rt[id].token_count ELSE 0],
          DOMAIN rt)

\* refresh_block coroutines that have not produced their result yet
Unfinished(rt) == {id \in DOMAIN rt : rt[id].pc \in {"start", "counted", "locked"}}

InitRefresh ==
  /\ blocks = [id \in BlockIds |-> MaxCount]
  /\ total_tokens = NumBlocks * MaxCount
  /\ lock = NoHolder
  /\ pc = [p \in Callers |-> "idle"]
  /\ arg = [p \in Callers |-> NoCall]
  /\ last_op = "init"
  /\ applied = [p \in ParallelCallers |-> 0]
  /\ HubIdle
  /\ ManagerIdle
  /\ fv = NoFile
  /\ call = NoHistory
  /\ SchedIdle(MaxTasks, NumWorkers)
  /\ contents \in [BlockIds -> Contents]
  /\ listed = [id \in BlockIds |-> id]
  /\ refresh_tasks = [id \in BlockIds |-> NoRefreshTask]
  /\ refresh = [pc |-> "idle", total_tokens |-> 0, block_tokens |-> <<>>,
                error |-> "none", cause |-> "none"]

\* refresh_all, lines 110-121: reset() the aggregator, create one
\* refresh_block coroutine per block and wait for them in gather
RA_Call ==
  /\ refresh.pc = "idle"
  /\ blocks' = RS_NewBlocks(blocks)
  /\ total_tokens' = 0
  /\ last_op' = "reset"
  /\ refresh_tasks' = [i \in DOMAIN listed |-> [NoRefreshTask EXCEPT !.pc = "start"]]
  /\ refresh' = [refresh EXCEPT !.pc = "gather"]
  /\ UNCHANGED <<lock, pc, arg, contents, listed, applied, hubVars, managerVars, fv, call, schedVars>>

\* refresh_block, lines 53-76: resolve the references and count the tokens
RB_Count(id) ==
  /\ refresh.pc = "gather"
  /\ refresh_tasks[id].pc = "start"
  /\ refresh_tasks' = [refresh_tasks EXCEPT
                         ![id].pc = "counted",
                         ![id].token_count = ContentForCounting(contents[listed[id]])]
  /\ UNCHANGED <<counterVars, contents, listed, refresh, applied, hubVars, managerVars, fv, call, schedVars>>

\* the tokenizer fails on non-empty content: TokenizationError, which
\* refresh_block turns into RefreshError (lines 90-92); gather keeps it as
\* this block's result
RB_CountFails(id) ==
  /\ refresh.pc = "gather"
  /\ refresh_tasks[id].pc = "start"
  /\ ContentForCounting(contents[listed[id]]) # 0
  /\ refresh_tasks' = [refresh_tasks EXCEPT
                         ![id].pc = "failed",
                         ![id].error = RB_Handler("TokenizationError")]
  /\ UNCHANGED <<counterVars, contents, listed, refresh, applied, hubVars, managerVars, fv, call, schedVars>>

\* processing the block's references raises (building a FenceReference, or
\* reading the session at line 53): _process_references wraps what it catches
\* and refresh_block wraps it again
RB_RefsFail(id) ==
  /\ refresh.pc = "gather"
  /\ refresh_tasks[id].pc = "start"
  /\ contents[listed[id]].refs # "none"
  /\ refresh_tasks' = [refresh_tasks EXCEPT
                         ![id].pc = "failed",
                         ![id].error = RB_Handler(PR_Handler("RuntimeError"))]
  /\ UNCHANGED <<counterVars, contents, listed, refresh, applied, hubVars, managerVars, fv, call, schedVars>>

\* refresh_block, line 79: update_block(block_id, token_count) under the lock
RB_Update(id) ==
  /\ refresh.pc = "gather"
  /\ refresh_tasks[id].pc = "counted"
  /\ lock = NoHolder
  /\ lock' = RefreshHolder(id)
  /\ blocks' = UB_NewBlocks(blocks, listed[id], refresh_tasks[id].token_count)
  /\ total_tokens' = UB_NewTotal(blocks, listed[id], refresh_tasks[id].token_count, total_tokens)
  /\ last_op' = "update_block"
  /\ refresh_tasks' = [refresh_tasks EXCEPT ![id].pc = "locked"]
  /\ UNCHANGED <<pc, arg, contents, listed, refresh, applied, hubVars, managerVars, fv, call, schedVars>>

\* update_block returns and refresh_block returns its dict with status
\* "success" (lines 80-88)
RB_Return(id) ==
  /\ refresh.pc = "gather"
  /\ refresh_tasks[id].pc = "locked"
  /\ lock' = NoHolder
  /\ refresh_tasks' = [refresh_tasks EXCEPT
                         ![id].pc = "done",
                         ![id].content = ReturnedContent(contents[listed[id]])]
  /\ UNCHANGED <<blocks, total_tokens, pc, arg, last_op, contents, listed, refresh, applied, hubVars, managerVars, fv,
                 call, schedVars>>

\* the 30 s of wait_for run out while a refresh_block is unfinished: the
\* gathered coroutines are cancelled (releasing the lock), RefreshError with
\* TimeoutMessage is raised at lines 124-126 and passes through the handler
\* of lines 149-151
RA_Timeout ==
  /\ refresh.pc = "gather"
  /\ Unfinished(refresh_tasks) # {}
  /\ refresh_tasks' = [id \in DOMAIN refresh_tasks |->
                         IF id \in Unfinished(refresh_tasks)
                         THEN [refresh_tasks[id] EXCEPT !.pc = "cancelled"]
                         ELSE refresh_tasks[id]]
  /\ lock' = NoHolder
  /\ refresh' = [pc |-> "raised", total_tokens |-> 0, block_tokens |-> <<>>,
                 error |-> OuterHandler(TimeoutMessage).error,
                 cause |-> OuterHandler(TimeoutMessage).cause]
  /\ UNCHANGED <<blocks, total_tokens, pc, arg, last_op, contents, listed, applied, hubVars, managerVars, fv, call, schedVars>>

\* gather is done, lines 128-147: sum the token counts of the results that
\* are not exceptions, set_total_tokens(total_tokens) and return
RA_Return ==
  /\ refresh.pc = "gather"
  /\ Unfinished(refresh_tasks) = {}
  /\ lock = NoHolder
  /\ total_tokens' = ReturnedTotal(refresh_tasks)
  /\ last_op' = "set_total_tokens"
  /\ refresh' = [refresh EXCEPT !.pc = "returned",
                                !.total_tokens = ReturnedTotal(refresh_tasks),
                                !.block_tokens = BlockTokens(refresh_tasks)]
  /\ UNCHANGED <<blocks, lock, pc, arg, contents, listed, refresh_tasks, applied, hubVars, managerVars, fv, call, schedVars>>

NextRefresh ==
  \/ RA_Call
  \/ \E id \in DOMAIN listed : RB_Count(id)
  \/ \E id \in DOMAIN listed : RB_CountFails(id)
  \/ \E id \in DOMAIN listed : RB_RefsFail(id)
  \/ \E id \in DOMAIN listed : RB_Update(id)
  \/ \E id \in DOMAIN listed : RB_Return(id)
  \/ RA_Timeout
  \/ RA_Return

\* one refresh_all over all blocks, for every content of the blocks
SpecRefresh == InitRefresh /\ [][NextRefresh]_vars

\* the block ids refresh_all is called with: every list of NumListed ids,
\* the lists that name an id more than once included
InitRefreshList ==
  /\ blocks = [id \in BlockIds |-> MaxCount]
  /\ total_tokens = NumBlocks * MaxCount
  /\ lock = NoHolder
  /\ pc = [p \in Callers |-> "idle"]
  /\ arg = [p \in Callers |-> NoCall]
  /\ last_op = "init"
  /\ applied = [p \in ParallelCallers |-> 0]
  /\ HubIdle
  /\ ManagerIdle
  /\ fv = NoFile
  /\ call = NoHistory
  /\ SchedIdle(MaxTasks, NumWorkers)
  /\ contents \in [BlockIds -> Contents]
  /\ listed \in [1..NumListed -> BlockIds]
  /\ refresh_tasks = [i \in 1..NumListed |-> NoRefreshTask]
  /\ refresh = [pc |-> "idle", total_tokens |-> 0, block_tokens |-> <<>>,
                error |-> "none", cause |-> "none"]

\* one refresh_all over a list of block ids that may repeat an id
SpecRefreshList == InitRefreshList /\ [][NextRefresh]_vars

(* ------------------------------ claims -------------------------------- *)

\* C1: after any sequence of update_block calls with non-negative counts,
\* total_tokens equals the sum of the counts of the blocks in the map
C1_TotalIsSumAfterUpdateBlock ==
  last_op = "update_block" => total_tokens = SumBlocks(blocks)

\* an update_block has returned and every block holds the largest count
C1_Witness ==
  /\ last_op = "update_block"
  /\ \A p \in DOMAIN pc : pc[p] = "idle"
  /\ \A id \in DOMAIN blocks : blocks[id] = MaxCount
  /\ total_tokens = NumBlocks * MaxCount

\* C2 (as stated): after every mutating call other than set_total_tokens,
\* total_tokens equals the sum of the per-block counts
C2_TotalIsSumExceptAfterSetTotal ==
  last_op \in {"update_block", "update_blocks_batch", "remove_block", "reset"}
    => total_tokens = SumBlocks(blocks)

\* C3: when all parallel update_block calls on pairwise disjoint ids have
\* returned, total_tokens is the sum of the applied counts and every block
\* holds the count its caller applied
C3_NoLostUpdate ==
  (\A p \in DOMAIN pc : pc[p] = "idle")
    => /\ total_tokens = SumOver(applied, DOMAIN applied)
       /\ \A p \in DOMAIN applied : applied[p] > 0 => blocks[p] = applied[p]

\* every parallel caller has applied a count and returned
C3_Witness ==
  /\ DOMAIN pc = ParallelCallers
  /\ \A p \in ParallelCallers : pc[p] = "idle" /\ applied[p] > 0
  /\ \E p, q \in ParallelCallers : applied[p] # applied[q]

\* task id t is in the heap list of the queue
InQueue(t) == \E i \in 1..Len(queue) : queue[i] = t

\* C4 (as stated): whenever a worker dequeues a task, no task pending in the
\* queue at that moment has a numerically lower priority value
\* (HIGH=0 < MEDIUM=1 < LOW=2)
C4_DequeuesLowestPriority ==
  [][\A w \in DOMAIN wpc :
       (wpc[w] = "get" /\ wpc'[w] = "run")
       => \A i \in 1..Len(queue) :
            tasks[wtask'[w]].priority <= tasks[queue[i]].priority
    ]_vars

\* C5 (as stated): for two queued tasks of equal priority submit succeeded
\* for both, and the one submitted later is not dequeued while the earlier
\* one is still queued
C5_EqualPriorityFifo ==
  \A i, j \in DOMAIN tasks :
    ( /\ i < j
      /\ tasks[i].status # "none" /\ tasks[j].status # "none"
      /\ tasks[i].priority = tasks[j].priority )
    => /\ (InQueue(i) /\ InQueue(j)) => (tasks[i].put_ok /\ tasks[j].put_ok)
       /\ ~(InQueue(i) /\ tasks[i].status = "PENDING" /\ tasks[j].status # "PENDING")

C7_StopDrainsAndReturns ==
  /\ ~(stop_pc = "join" /\ \A w \in DOMAIN wpc : wpc[w] = "exited")
  /\ stop_pc = "returned"
       => \A t \in DOMAIN tasks :
            t <= stop_seen => tasks[t].status \notin {"PENDING", "RUNNING"}

\* C8 (as stated): when refresh_all returns and one block's only reference
\* failed to resolve while the other blocks are plain text that refreshed,
\* the failing block is reported as failed and the returned and the stored
\* total are the sum of the plain blocks' counts only
C8_FailedReferenceContributesNothing ==
  \A id \in BlockIds :
    ( /\ refresh.pc = "returned"
      /\ contents[id].refs = "missing" /\ contents[id].text > 0
      /\ \A o \in BlockIds \ {id} :
           /\ contents[o].refs = "none" /\ contents[o].text > 0
           /\ refresh_tasks[o].pc = "done" )
    => /\ refresh_tasks[id].pc = "failed"
       /\ refresh.total_tokens =
            SumOver([o \in BlockIds |-> IF o = id THEN 0 ELSE contents[o].text], BlockIds)
       /\ total_tokens = refresh.total_tokens

\* C9 (as stated): when refresh_all fails because the overall timeout ran
\* out, the error surfaced to the caller carries the timed-out message
C9_TimeoutSurfacesTimeoutMessage ==
  (refresh.pc = "raised" /\ refresh.cause = TimeoutMessage)
    => refresh.error = TimeoutMessage

\* C11: remove_block(id) of an id that is not in the map raises
\* BlockNotFoundError and leaves the map and the total as they were; of a
\* present id it removes that block only and lowers the total by its count
C11_RemoveBlock ==
  call.op = "remove_block"
    => IF call.blocks[call.id] = Absent
       THEN /\ call.error = "BlockNotFoundError"
            /\ blocks = call.blocks
            /\ total_tokens = call.total
       ELSE /\ call.error = "none"
            /\ blocks = [call.blocks EXCEPT ![call.id] = Absent]
            /\ total_tokens = call.total - call.blocks[call.id]

\* a present block was removed while the total differed from the sum
C11_Witness ==
  /\ call.op = "remove_block"
  /\ call.error = "none"
  /\ call.blocks[call.id] > 0
  /\ call.total # SumBlocks(call.blocks)
  /\ \E id \in BlockIds : blocks[id] # Absent

\* C12: an update_blocks_batch with an entry that is not a non-negative
\* integer fails, and neither the map nor the total is changed
C12_BatchValidatedBeforeMutation ==
  ( /\ call.op = "update_blocks_batch"
    /\ \E id \in DOMAIN call.updates :
         call.updates[id] # NotInBatch /\ call.updates[id] < 0 )
  => /\ call.error = "ValueError"
     /\ blocks = call.blocks
     /\ total_tokens = call.total

\* a batch holding a valid entry for a new count and an invalid entry failed
C12_Witness ==
  /\ call.op = "update_blocks_batch"
  /\ call.error = "ValueError"
  /\ \E id \in DOMAIN call.updates :
       call.updates[id] > 0 /\ call.updates[id] # call.blocks[id]
  /\ \E id \in DOMAIN call.updates : id # 1 /\ call.updates[id] < 0 /\ call.updates[id] # NotInBatch

\* C13: update_block(id, 0) leaves block id out of the map, whether or not it
\* was present, and get_block_count(id) is then 0
C13_UpdateToZeroRemoves ==
  (call.op = "update_block" /\ call.count = 0)
    => /\ call.error = "none"
       /\ blocks[call.id] = Absent
       /\ get_block_count(blocks, call.id) = 0

\* update_block(id, 0) was called on a present block
C13_Witness ==
  /\ call.op = "update_block"
  /\ call.count = 0
  /\ call.blocks[call.id] # Absent
  /\ call.blocks[call.id] > 0

\* C14: after reset() the total is 0, get_block_count is 0 for every id that
\* was set before, and the registered listener was called with 0
C14_ResetClearsEverything ==
  call.op = "reset"
    => /\ total_tokens = 0
       /\ \A id \in DOMAIN call.blocks : get_block_count(blocks, id) = 0
       /\ call.error = "none"
       /\ call.heard = <<0>>

\* reset() was called with every block set and a total away from their sum
C14_Witness ==
  /\ call.op = "reset"
  /\ \A id \in DOMAIN call.blocks : call.blocks[id] > 0
  /\ call.total # SumBlocks(call.blocks)
  /\ call.total > 0

\* C15 (as stated): after every successful call of update_block,
\* update_blocks_batch (with entries), remove_block, set_total_tokens and
\* reset, the registered listener was called with the new total
C15_ListenerHearsEveryMutation ==
  ( /\ call.op \in {"update_block", "update_blocks_batch", "remove_block",
                    "set_total_tokens", "reset"}
    /\ call.error = "none"
    /\ call.op = "update_blocks_batch"
         => \E id \in DOMAIN call.updates : call.updates[id] # NotInBatch )
  => call.heard = <<total_tokens>>

\* C16: set_total_tokens(t) with t < 0 raises InvalidTokenCountError and
\* changes nothing; with t >= 0 the total is t, the listener was called with
\* t and the block map is as before
C16_SetTotalTokens ==
  call.op = "set_total_tokens"
    => /\ blocks = call.blocks
       /\ IF call.count < 0
          THEN /\ call.error = "InvalidTokenCountError"
               /\ total_tokens = call.total
               /\ call.heard = <<>>
          ELSE /\ call.error = "none"
               /\ total_tokens = call.count
               /\ call.heard = <<call.count>>

\* set_total_tokens with a negative total was rejected while blocks were set
C16_Witness ==
  /\ call.op = "set_total_tokens"
  /\ call.count < 0
  /\ call.total > 0
  /\ \E id \in DOMAIN blocks : blocks[id] > 0

\* C17 (as stated): every block in the map has a token count > 0, and
\* remove_block of a block whose count was set to 0 raises BlockNotFoundError
C17_BlocksInMapArePositive ==
  /\ \A id \in DOMAIN blocks : blocks[id] # Absent => blocks[id] > 0
  /\ ( /\ call.op = "remove_block"
       /\ \/ call.blocks[call.id] = Absent
          \/ call.blocks[call.id] = 0 )
     => call.error = "BlockNotFoundError"

\* C18: when refresh_all returns, the returned total is the sum of the token
\* counts of the blocks whose refresh succeeded, the returned per-block counts
\* are those of exactly these blocks, the aggregator's total equals the
\* returned total, and of what the aggregator held before only the
\* successfully refreshed blocks are left
C18_RefreshAllTotals ==
  refresh.pc = "returned"
    => LET ok == {id \in BlockIds : refresh_tasks[id].pc = "done"}
       IN /\ \A id \in BlockIds : refresh_tasks[id].pc \in {"done", "failed"}
          /\ refresh.total_tokens =
               SumOver([id \in BlockIds |->
                          IF id \in ok THEN ContentForCounting(contents[id]) ELSE 0],
                       BlockIds)
          /\ DOMAIN refresh.block_tokens = ok
          /\ \A id \in ok : refresh.block_tokens[id] = ContentForCounting(contents[id])
          /\ total_tokens = refresh.total_tokens
          /\ \A id \in BlockIds :
               get_block_count(blocks, id) =
                 (IF id \in ok THEN ContentForCounting(contents[id]) ELSE 0)

\* refresh_all returned with a block that succeeded with a positive count and
\* a block whose refresh raised
C18_Witness ==
  /\ refresh.pc = "returned"
  /\ \E id \in BlockIds : refresh_tasks[id].pc = "done" /\ refresh_tasks[id].token_count > 0
  /\ \E id \in BlockIds : refresh_tasks[id].pc = "failed"

\* C19: a refresh_block that returned has returned the content it was given,
\* reference patterns included, and its token_count is what the aggregator
\* holds for the block (no block when the count is 0)
C19_RefreshBlockResult ==
  \A id \in BlockIds :
    refresh_tasks[id].pc = "done"
      => /\ refresh_tasks[id].content = contents[id]
         /\ refresh_tasks[id].error = "none"
         /\ get_block_count(blocks, id) = refresh_tasks[id].token_count
         /\ refresh_tasks[id].token_count = 0 <=> blocks[id] = Absent

\* a refresh_block returned for a block whose reference resolved to content
\* with another token count than the raw text
C19_Witness ==
  \E id \in BlockIds :
    /\ refresh_tasks[id].pc = "done"
    /\ contents[id].refs = "found"
    /\ contents[id].ref_tokens > 0
    /\ contents[id].ref_tokens # contents[id].text
    /\ refresh_tasks[id].token_count = contents[id].ref_tokens

\* C20: a refresh_block that fails raises RefreshError and nothing else, and
\* the step in which it fails before update_block leaves the aggregator's
\* blocks and total as they were
C20_RefreshBlockFailure ==
  [][\A id \in BlockIds :
       (refresh_tasks[id].pc # "failed" /\ refresh_tasks'[id].pc = "failed")
       => /\ refresh_tasks'[id].error = "RefreshError"
          /\ blocks' = blocks
          /\ total_tokens' = total_tokens
    ]_vars

\* the tokenizer failed for a block after another block was written
C20_Witness ==
  \E id \in BlockIds :
    /\ refresh_tasks[id].pc = "failed"
    /\ refresh_tasks[id].error = "RefreshError"
    /\ \E o \in BlockIds : blocks[o] # Absent /\ blocks[o] > 0

\* C10: a step of update_block(id, count) with count < 0 never changes the
\* block map or the total, and puts the call on the path that raises
\* InvalidTokenCountError
C10_NegativeUpdateRejected ==
  [][\A p \in DOMAIN pc :
       ( /\ arg'[p] # arg[p]
         /\ \/ arg[p].op = "update_block" /\ arg[p].count < 0
            \/ arg'[p].op = "update_block" /\ arg'[p].count < 0 )
       => /\ blocks' = blocks
          /\ total_tokens' = total_tokens
          /\ arg'[p] # NoCall => pc'[p] = "ub_err"
          /\ arg'[p] = NoCall => pc[p] = "ub_err"
    ]_vars

\* update_block with a negative count is raising while blocks are present
C10_Witness ==
  /\ \E p \in DOMAIN pc : pc[p] = "ub_err" /\ arg[p].count < 0
  /\ \E id \in DOMAIN blocks : blocks[id] > 0
  /\ total_tokens > 0

\* C21: a task's status changes only from PENDING to RUNNING and from RUNNING
\* to COMPLETED or FAILED; a COMPLETED or FAILED task keeps its status,
\* result, error and retry count in every later step, is not in the queue and
\* is in no worker's hands
C21_TaskLifeCycle ==
  [][\A t \in DOMAIN tasks :
       /\ tasks'[t].status # tasks[t].status
            => <<tasks[t].status, tasks'[t].status>> \in
                 {<<"none", "PENDING">>, <<"PENDING", "RUNNING">>,
                  <<"RUNNING", "COMPLETED">>, <<"RUNNING", "FAILED">>}
       /\ tasks[t].status \in {"COMPLETED", "FAILED"}
            => /\ tasks'[t] = tasks[t]
               /\ ~InQueue(t)'
               /\ \A w \in DOMAIN wtask : wtask'[w] # t
    ]_vars

\* a task completed, another failed after its retries, and a worker has gone
\* on to a third task
C21_Witness ==
  /\ \E t \in DOMAIN tasks : tasks[t].status = "COMPLETED"
  /\ \E t \in DOMAIN tasks : tasks[t].status = "FAILED" /\ tasks[t].retries = MaxRetries
  /\ \E t \in DOMAIN tasks : tasks[t].status = "RUNNING"

\* C22: once stop() has been called, a task submitted after that call is
\* never moved to RUNNING by a worker
C22_NoPickupAfterStop ==
  \A t \in DOMAIN tasks :
    (stop_pc # "idle" /\ t > stop_seen) => tasks[t].status \in {"none", "PENDING"}

\* C23: the recent-notification list never holds more than 100 entries, and
\* it holds the most recent notifications, as many as arrived up to 100, in
\* the order they arrived: on overflow exactly the oldest one went
C23_RecentBufferBounded ==
  /\ Len(recent) <= MaxRecent
  /\ Len(recent) = (IF notified < MaxRecent THEN notified ELSE MaxRecent)
  /\ \A i \in 1..Len(recent) : recent[i] = notified - Len(recent) + i

\* more notifications arrived than the list holds: the first ones are gone
C23_Witness ==
  /\ notified > MaxRecent + 1
  /\ Len(recent) = MaxRecent
  /\ recent[1] = notified - MaxRecent + 1

\* C24: resolve_reference never raises; the handler's resolve is called only
\* after its validate returned valid; and a call that found no handler, whose
\* validate returned invalid or raised, or that ended while resolve raised,
\* returns a result with success False and an error message
C24_ResolveReferenceNeverRaises ==
  /\ rr.pc # "raised"
  /\ rr.resolve_called => rr.validate = "valid"
  /\ (/\ rr.pc = "returned"
      /\ \/ rr.type \notin handlers
         \/ rr.validate \in {"invalid", "raised"}
         \/ rr.resolve = "raised")
     => ~rr.success /\ rr.error \notin {"none", ""}

\* a handler's validate returned invalid without a message and the call has
\* returned
C24_Witness ==
  /\ rr.pc = "returned"
  /\ rr.type \in handlers
  /\ rr.validate = "invalid"
  /\ rr.error = "Invalid reference value"

\* the path lies in an allowed directory under that directory's rule:
\* directly in it, or anywhere below it when it is recursive
AllowedByRule(f) ==
  \E d \in f.dirs :
    /\ is_subpath(f.path, d.path)
    /\ d.is_recursive \/ Len(f.path) <= Len(d.path) + 1

\* C25: file reference validation accepts a path only if it lies in an
\* allowed directory under that directory's recursion rule (so a file in a
\* subdirectory of a directory that is not recursive, and a path under no
\* allowed directory, are rejected), and it accepts a file of an allowed
\* type that lies below a recursive allowed directory
C25_FileValidationFollowsRecursionRule ==
  fv.validated
    => /\ fv.is_valid => AllowedByRule(fv)
       /\ (/\ fv.exists /\ fv.is_file /\ fv.type_allowed /\ ~fv.crowded
           /\ ~is_excluded_dir(fv.path)
           /\ \E d \in fv.dirs : d.is_recursive /\ is_subpath(fv.path, d.path))
          => fv.is_valid

\* C26: no step changes the block map or the total while the lock is held
\* by an operation that took it earlier: every writer is the one that holds
\* the lock, having found it free
C26_MutationsOnlyUnderLock ==
  [][(blocks' # blocks \/ total_tokens' # total_tokens) => lock = NoHolder]_vars

\* C27: a call that passes a negative count to update_block,
\* update_blocks_batch or set_total_tokens raises InvalidTokenCountError, a
\* remove_block of an unknown id raises BlockNotFoundError, and each of them
\* has given a notification to the error notification service by then
C27_ViolationsRaisedAndReported ==
  LET negative == \/ call.op \in {"update_block", "set_total_tokens"} /\ call.count < 0
                  \/ /\ call.op = "update_blocks_batch"
                     /\ \E id \in DOMAIN call.updates :
                          call.updates[id] # NotInBatch /\ call.updates[id] < 0
      unknown == call.op = "remove_block" /\ call.blocks[call.id] = Absent
  IN /\ negative => call.error = "InvalidTokenCountError" /\ call.reported # "none"
     /\ unknown => call.error = "BlockNotFoundError" /\ call.reported # "none"

\* C28: total_tokens is never negative
C28_TotalNeverNegative == total_tokens >= 0

\* C29: after refresh_all returns successfully, the aggregator's total_tokens
\* equals the sum of the counts in its per-block map, for every list of block
\* ids passed in, the lists that name the same id more than once included
C29_TotalEqualsMapAfterRefreshAll ==
  refresh.pc = "returned" => total_tokens = SumBlocks(blocks)

\* C30: while the processor is started and not stopped, every submitted task
\* eventually reaches COMPLETED or FAILED, whatever the priorities (equal
\* ones included) and however many tasks there are for the workers
C30_EveryTaskTerminates ==
  \A t \in 1..MaxTasks :
    (running /\ tasks[t].status = "PENDING")
      ~> (tasks[t].status \in {"COMPLETED", "FAILED"})

====
